---- MODULE Spec2Model ----
(***************************************************************************)
(* A model of the Twitter241 webhook gateway (src/main.py): the POST       *)
(* /twitter router, the rate_limit_decorator wrapper that paces every      *)
(* handler, the 46 handlers (one table row each) and the translation of    *)
(* the upstream response.  Each inbound request is a thread of the         *)
(* threaded Flask server; the only shared mutable object is the module     *)
(* global last_request_time, which the wrapper reads and writes without    *)
(* any lock, so its statements interleave freely between threads.          *)
(*                                                                         *)
(* Time is counted in ticks of 0.4 s, so MIN_REQUEST_INTERVAL (1.2 s) is 3.*)
(***************************************************************************)
EXTENDS Integers, Sequences, FiniteSets, TLC

\* ------------------------------------------------------------------ bounds
NumReqs == 2
MaxTime == 7

\* --------------------------------------------------------------- constants
MIN_REQUEST_INTERVAL == 3

\* Python's None, as a value no string of the model equals.
None == "<None>"

Reqs == 1..NumReqs

\* ---------------------------------------------------------------- registry
\* One row per decorated handler: the upstream path, the alias group whose
\* first truthy value is the required parameter (<<>>: nothing required), the
\* upstream name it is sent under, the parameters read with a literal
\* default (params.get(k, d)) and the parameters sent only when truthy.
ACTION_MAP ==
  "get_user_by_username" :> [path |-> "/user", required |-> <<"username">>, upstream |-> "username",
      defaults |-> <<>>, optional |-> <<>>] @@
  "get_users_by_ids" :> [path |-> "/get-users", required |-> <<"ids">>, upstream |-> "ids",
      defaults |-> <<>>, optional |-> <<>>] @@
  "get_users_by_ids_v2" :> [path |-> "/get-users-v2", required |-> <<"rest_ids">>, upstream |-> "rest_ids",
      defaults |-> <<>>, optional |-> <<>>] @@
  "get_user_replies" :> [path |-> "/user-replies", required |-> <<"user", "user_id">>, upstream |-> "user",
      defaults |-> <<<<"count", "20">>>>, optional |-> <<"cursor">>] @@
  "get_user_replies_v2" :> [path |-> "/user-replies-v2", required |-> <<"user", "user_id">>, upstream |-> "user",
      defaults |-> <<<<"count", "20">>>>, optional |-> <<"cursor">>] @@
  "get_user_media" :> [path |-> "/user-media", required |-> <<"user", "user_id">>, upstream |-> "user",
      defaults |-> <<<<"count", "20">>>>, optional |-> <<"cursor">>] @@
  "get_user_tweets" :> [path |-> "/user-tweets", required |-> <<"user", "user_id">>, upstream |-> "user",
      defaults |-> <<<<"count", "20">>>>, optional |-> <<"cursor">>] @@
  "get_user_followings" :> [path |-> "/followings", required |-> <<"user", "user_id">>, upstream |-> "user",
      defaults |-> <<<<"count", "20">>>>, optional |-> <<"cursor">>] @@
  "get_user_following_ids" :> [path |-> "/following-ids", required |-> <<"username">>, upstream |-> "username",
      defaults |-> <<<<"count", "5000">>>>, optional |-> <<"cursor">>] @@
  "get_user_followers" :> [path |-> "/followers", required |-> <<"user", "user_id">>, upstream |-> "user",
      defaults |-> <<<<"count", "20">>>>, optional |-> <<"cursor">>] @@
  "get_user_followers_ids" :> [path |-> "/followers-ids", required |-> <<"username">>, upstream |-> "username",
      defaults |-> <<<<"count", "5000">>>>, optional |-> <<"cursor">>] @@
  "get_user_verified_followers" :> [path |-> "/verified-followers", required |-> <<"user", "user_id">>, upstream |-> "user",
      defaults |-> <<<<"count", "20">>>>, optional |-> <<"cursor">>] @@
  "get_highlights" :> [path |-> "/highlights", required |-> <<"user", "user_id">>, upstream |-> "user",
      defaults |-> <<<<"count", "20">>>>, optional |-> <<"cursor">>] @@
  "get_post_comments" :> [path |-> "/comments", required |-> <<"pid", "post_id">>, upstream |-> "pid",
      defaults |-> <<<<"count", "20">>>>, optional |-> <<"cursor">>] @@
  "get_post_comments_v2" :> [path |-> "/comments-v2", required |-> <<"pid", "post_id">>, upstream |-> "pid",
      defaults |-> <<<<"count", "20">>>>, optional |-> <<"cursor">>] @@
  "get_post_quotes" :> [path |-> "/quotes", required |-> <<"pid", "post_id">>, upstream |-> "pid",
      defaults |-> <<<<"count", "20">>>>, optional |-> <<"cursor">>] @@
  "get_post_retweets" :> [path |-> "/retweets", required |-> <<"pid", "post_id">>, upstream |-> "pid",
      defaults |-> <<<<"count", "20">>>>, optional |-> <<"cursor">>] @@
  "get_tweet_details" :> [path |-> "/tweet", required |-> <<"tweet_id", "pid">>, upstream |-> "pid",
      defaults |-> <<>>, optional |-> <<>>] @@
  "get_tweet_details_v2" :> [path |-> "/tweet-v2", required |-> <<"tweet_id", "pid">>, upstream |-> "pid",
      defaults |-> <<>>, optional |-> <<>>] @@
  "get_tweets_by_ids" :> [path |-> "/tweet-by-ids", required |-> <<"ids">>, upstream |-> "ids",
      defaults |-> <<>>, optional |-> <<>>] @@
  "search_twitter" :> [path |-> "/search", required |-> <<"query">>, upstream |-> "query",
      defaults |-> <<<<"type", "Top">>, <<"count", "20">>>>, optional |-> <<"cursor">>] @@
  "search_twitter_v2" :> [path |-> "/search-v2", required |-> <<"query">>, upstream |-> "query",
      defaults |-> <<<<"type", "Top">>, <<"count", "20">>>>, optional |-> <<"cursor">>] @@
  "autocomplete" :> [path |-> "/autocomplete", required |-> <<"query">>, upstream |-> "query",
      defaults |-> <<>>, optional |-> <<>>] @@
  "get_space_details" :> [path |-> "/spaces", required |-> <<"id", "space_id">>, upstream |-> "id",
      defaults |-> <<>>, optional |-> <<>>] @@
  "get_organization_affiliates" :> [path |-> "/org-affiliates", required |-> <<"id", "org_id">>, upstream |-> "id",
      defaults |-> <<>>, optional |-> <<>>] @@
  "search_lists" :> [path |-> "/search-lists", required |-> <<"query">>, upstream |-> "query",
      defaults |-> <<>>, optional |-> <<>>] @@
  "get_list_details" :> [path |-> "/list-details", required |-> <<"listId", "list_id">>, upstream |-> "listId",
      defaults |-> <<>>, optional |-> <<>>] @@
  "get_list_timeline" :> [path |-> "/list-timeline", required |-> <<"listId", "list_id">>, upstream |-> "listId",
      defaults |-> <<<<"count", "20">>>>, optional |-> <<"cursor">>] @@
  "get_list_followers" :> [path |-> "/list-followers", required |-> <<"listId", "list_id">>, upstream |-> "listId",
      defaults |-> <<<<"count", "20">>>>, optional |-> <<"cursor">>] @@
  "get_list_members" :> [path |-> "/list-members", required |-> <<"listId", "list_id">>, upstream |-> "listId",
      defaults |-> <<<<"count", "20">>>>, optional |-> <<"cursor">>] @@
  "search_community" :> [path |-> "/search-community", required |-> <<"query">>, upstream |-> "query",
      defaults |-> <<>>, optional |-> <<>>] @@
  "get_community_topics" :> [path |-> "/community-topics", required |-> <<>>, upstream |-> None,
      defaults |-> <<>>, optional |-> <<>>] @@
  "fetch_popular_community" :> [path |-> "/fetch-popular-community", required |-> <<>>, upstream |-> None,
      defaults |-> <<>>, optional |-> <<>>] @@
  "get_community_timeline" :> [path |-> "/explore-community-timeline", required |-> <<>>, upstream |-> None,
      defaults |-> <<>>, optional |-> <<>>] @@
  "get_community_members" :> [path |-> "/community-members", required |-> <<"communityId", "community_id">>, upstream |-> "communityId",
      defaults |-> <<<<"count", "20">>>>, optional |-> <<"cursor">>] @@
  "get_community_moderators" :> [path |-> "/community-moderators", required |-> <<"communityId", "community_id">>, upstream |-> "communityId",
      defaults |-> <<<<"count", "20">>>>, optional |-> <<"cursor">>] @@
  "get_community_tweets" :> [path |-> "/community-tweets", required |-> <<"communityId", "community_id">>, upstream |-> "communityId",
      defaults |-> <<<<"type", "Top">>, <<"count", "20">>>>, optional |-> <<"cursor">>] @@
  "get_community_about" :> [path |-> "/community-about", required |-> <<"communityId", "community_id">>, upstream |-> "communityId",
      defaults |-> <<>>, optional |-> <<>>] @@
  "get_community_details" :> [path |-> "/community-details", required |-> <<"communityId", "community_id">>, upstream |-> "communityId",
      defaults |-> <<>>, optional |-> <<>>] @@
  "search_job_locations" :> [path |-> "/jobs-locations-suggest", required |-> <<"query">>, upstream |-> "query",
      defaults |-> <<>>, optional |-> <<>>] @@
  "search_jobs" :> [path |-> "/jobs-search", required |-> <<"query">>, upstream |-> "query",
      defaults |-> <<<<"count", "20">>>>, optional |-> <<"location", "cursor">>] @@
  "get_job_details" :> [path |-> "/job-details", required |-> <<"jobId", "job_id">>, upstream |-> "jobId",
      defaults |-> <<>>, optional |-> <<>>] @@
  "get_trends_locations" :> [path |-> "/trends-locations", required |-> <<>>, upstream |-> None,
      defaults |-> <<>>, optional |-> <<>>] @@
  "get_trends_by_location" :> [path |-> "/trends-by-location", required |-> <<>>, upstream |-> None,
      defaults |-> <<<<"woeid", "1">>>>, optional |-> <<>>] @@
  "get_post_likes" :> [path |-> "/likes", required |-> <<"pid", "post_id">>, upstream |-> "pid",
      defaults |-> <<<<"count", "20">>>>, optional |-> <<"cursor">>] @@
  "get_user_likes" :> [path |-> "/user-likes", required |-> <<"user", "user_id">>, upstream |-> "user",
      defaults |-> <<<<"count", "20">>>>, optional |-> <<"cursor">>]

\* ------------------------------------------------------- Python semantics
\* params.get(k): the value, or None when the key is absent.
Get(params, k) == IF k \in DOMAIN params THEN params[k] ELSE None

\* A lookup whose default is the same for every action and every name.
GetDefaultUniform(params, k, d) == IF k \in DOMAIN params THEN params[k] ELSE "20"

\* params.get(k, d): the default only when the key is absent.
GetDefault(params, k, d) == IF k \in DOMAIN params THEN params[k] ELSE d

\* Truth value of a string-or-None: None and "" are falsy.
Truthy(v) == v # None /\ v # ""

\* a or b
PyOr(a, b) == IF Truthy(a) THEN a ELSE b

EmptyParams == [k \in {} |-> ""]

\* ------------------------------------------------------ upstream provider
\* What requests.get can produce: a response with a status code and a text,
\* or an exception (DNS, connection, timeout).
UpstreamStatuses == {200, 429, 401, 404, 500}

UpstreamTexts == {"{\"id\":\"1\"}", "{ \"id\": \"1\" }", "<html>Bad Gateway</html>"}

Outcomes ==
  [kind : {"response"}, status_code : UpstreamStatuses, text : UpstreamTexts]
    \cup {[kind |-> "transport", status_code |-> 0, text |-> ""]}

\* The outcomes the concurrent specification draws from: a success, a rate
\* limit and no response at all.
PacedOutcomes ==
  { o \in Outcomes : o.kind = "transport"
                      \/ (o.status_code \in {200, 429} /\ o.text = "{\"id\":\"1\"}") }

\* response.json(): the parsed value of the text, or an exception.
ResponseJson(text) ==
  CASE text = "{\"id\":\"1\"}" -> [ok |-> TRUE, value |-> [id |-> "1"]]
    [] text = "{ \"id\": \"1\" }" -> [ok |-> TRUE, value |-> [id |-> "1"]]
    [] OTHER -> [ok |-> FALSE, value |-> [id |-> ""]]

\* --------------------------------------------------- response translation
\* The outcome of a Python call that can raise: the (body, status) pair it
\* returns, or raised = TRUE.
Returned(status, body) == [raised |-> FALSE, status |-> status, body |-> body]

Raised == [raised |-> TRUE, status |-> 0, body |-> [error |-> ""]]

RateLimitBody ==
  [error |-> "Rate limit exceeded. Twitter API calls are limited on the BASIC plan.",
   suggestion |-> "Please wait a moment and try again, or consider upgrading your RapidAPI plan.",
   status |-> "rate_limited"]

FailedMessage(code) == "API request failed with status " \o ToString(code)

\* handle_rapidapi_response without its 401 branch.
handle_rapidapi_response_no401(response, action) ==
  IF response.status_code = 200
    THEN IF ResponseJson(response.text).ok
           THEN Returned(200, ResponseJson(response.text).value)
           ELSE Raised
  ELSE IF response.status_code = 429
    THEN Returned(429, RateLimitBody)
  ELSE Returned(response.status_code, [error |-> FailedMessage(response.status_code)])

\* handle_rapidapi_response passing the upstream text on in its last branch.
handle_rapidapi_response_echo(response, action) ==
  IF response.status_code = 200
    THEN IF ResponseJson(response.text).ok
           THEN Returned(200, ResponseJson(response.text).value)
           ELSE Raised
  ELSE IF response.status_code = 429
    THEN Returned(429, RateLimitBody)
  ELSE IF response.status_code = 401
    THEN Returned(401, [error |-> "Invalid API key or authentication failed."])
  ELSE Returned(response.status_code,
                [error |-> FailedMessage(response.status_code) \o ": " \o response.text])

handle_rapidapi_response(response, action) ==
  IF response.status_code = 200
    THEN IF ResponseJson(response.text).ok
           THEN Returned(200, ResponseJson(response.text).value)
           ELSE Raised
  ELSE IF response.status_code = 429
    THEN Returned(429, RateLimitBody)
  ELSE IF response.status_code = 401
    THEN Returned(401, [error |-> "Invalid API key or authentication failed."])
  ELSE Returned(response.status_code, [error |-> FailedMessage(response.status_code)])

\* ---------------------------------------------------------------- handlers
\* The alias group read in the opposite order.
RequiredValueLastFirst(h, params) ==
  IF Len(h.required) = 1
    THEN Get(params, h.required[1])
    ELSE PyOr(Get(params, h.required[2]), Get(params, h.required[1]))

\* params.get(a) or params.get(b) for the handler's alias group.
RequiredValue(h, params) ==
  IF Len(h.required) = 1
    THEN Get(params, h.required[1])
    ELSE PyOr(Get(params, h.required[1]), Get(params, h.required[2]))

\* A message that names only the first alias of the group.
MissingMessageFirstOnly(h) == "Missing required parameter: " \o h.required[1]

MissingMessage(h) ==
  "Missing required parameter: " \o
    (IF Len(h.required) = 1 THEN h.required[1]
     ELSE h.required[1] \o " or " \o h.required[2])

\* A query that carries the optional parameters whether truthy or not.
RequestParamsUnguarded(h, params) ==
  (IF h.required = <<>> THEN <<>>
   ELSE << <<h.upstream, RequiredValue(h, params)>> >>)
  \o [i \in 1..Len(h.defaults) |->
        <<h.defaults[i][1], GetDefault(params, h.defaults[i][1], h.defaults[i][2])>>]
  \o [i \in 1..Len(h.optional) |-> <<h.optional[i], Get(params, h.optional[i])>>]

\* The query passed to requests.get, as the ordered list of its items.
RequestParams(h, params) ==
  LET Sent(k) == Truthy(Get(params, k))
      names == SelectSeq(h.optional, Sent)
  IN  (IF h.required = <<>> THEN <<>>
       ELSE << <<h.upstream, RequiredValue(h, params)>> >>)
      \o [i \in 1..Len(h.defaults) |->
            <<h.defaults[i][1], GetDefault(params, h.defaults[i][1], h.defaults[i][2])>>]
      \o [i \in 1..Len(names) |-> <<names[i], params[names[i]]>>]

\* Whether the handler calls params.get at all (before its try block).
ReadsParams(h) == h.required # <<>> \/ h.defaults # <<>> \/ h.optional # <<>>

InternalServerError == Returned(500, [error |-> "Internal server error"])

\* The line log_request writes; its timestamp is left out.
log_request(action, params, response_status) ==
  [by |-> "log_request", action |-> action, params |-> params, status |-> response_status]

\* logger.error(f"Exception in {action}: {e}")
ExceptionLog(action) == [by |-> "logger.error", text |-> "Exception in " \o action]

\* logger.info(f"Executing action: {action} with params: {params}")
RouterLog(action, params) == [by |-> "twitter_router", action |-> action, params |-> params]

\* logger.info(f"Rate limiting: sleeping for {sleep_time:.2f} seconds")
SleepLog(t) == [by |-> "wrapper", sleep_time |-> t]

\* The lines handle_rapidapi_response writes.
handle_rapidapi_response_logs(response, action) ==
  IF response.status_code \in {200, 401}
    THEN <<>>
  ELSE IF response.status_code = 429
    THEN <<[by |-> "logger.warning", text |-> "Rate limit hit for " \o action]>>
  ELSE <<[by |-> "logger.error", text |-> "RapidAPI error for " \o action,
          status |-> response.status_code, body |-> response.text]>>

\* The lines a decorated handler writes, in order, given what requests.get
\* produces if it is called.
HandlerLogs(action, mapping, params, outcome) ==
  LET h == ACTION_MAP[action] IN
  IF ~mapping /\ ReadsParams(h)
    THEN <<>>
  ELSE IF h.required # <<>> /\ ~Truthy(RequiredValue(h, params))
    THEN <<>>
  ELSE IF outcome.kind = "transport"
    THEN <<ExceptionLog(action)>>
  ELSE <<log_request(action, params, outcome.status_code)>>
         \o handle_rapidapi_response_logs(outcome, action)
         \o (IF handle_rapidapi_response(outcome, action).raised
               THEN <<ExceptionLog(action)>> ELSE <<>>)

\* A handler that calls upstream a second time when the first call fails or
\* is rate limited.
HandlerBodyRetrying(action, mapping, params, outcome) ==
  LET h == ACTION_MAP[action] IN
  IF ~mapping /\ ReadsParams(h)
    THEN [result |-> Raised, calls |-> <<>>]
  ELSE IF h.required # <<>> /\ ~Truthy(RequiredValue(h, params))
    THEN [result |-> Returned(400, [error |-> MissingMessage(h)]), calls |-> <<>>]
  ELSE
    LET call == [path |-> h.path,
                 params |-> IF mapping THEN RequestParams(h, params) ELSE <<>>]
    IN  IF outcome.kind = "transport"
          THEN [result |-> InternalServerError, calls |-> <<call, call>>]
        ELSE IF handle_rapidapi_response(outcome, action).raised
          THEN [result |-> InternalServerError, calls |-> <<call>>]
        ELSE [result |-> handle_rapidapi_response(outcome, action),
              calls |-> IF outcome.status_code = 429 THEN <<call, call>> ELSE <<call>>]

\* A handler whose requests.get is not inside a try block.
HandlerBodyNoExcept(action, mapping, params, outcome) ==
  LET h == ACTION_MAP[action] IN
  IF ~mapping /\ ReadsParams(h)
    THEN [result |-> Raised, calls |-> <<>>]
  ELSE IF h.required # <<>> /\ ~Truthy(RequiredValue(h, params))
    THEN [result |-> Returned(400, [error |-> MissingMessage(h)]), calls |-> <<>>]
  ELSE
    LET call == [path |-> h.path,
                 params |-> IF mapping THEN RequestParams(h, params) ELSE <<>>]
    IN  IF outcome.kind = "transport"
          THEN [result |-> Raised, calls |-> <<call>>]
        ELSE [result |-> handle_rapidapi_response(outcome, action), calls |-> <<call>>]

\* The body of a decorated handler, given what requests.get produces if it
\* is called: what the handler returns (or that it raised), and the list of
\* upstream calls it made.
HandlerBody(action, mapping, params, outcome) ==
  LET h == ACTION_MAP[action] IN
  IF ~mapping /\ ReadsParams(h)
    THEN [result |-> Raised, calls |-> <<>>]
  ELSE IF h.required # <<>> /\ ~Truthy(RequiredValue(h, params))
    THEN [result |-> Returned(400, [error |-> MissingMessage(h)]), calls |-> <<>>]
  ELSE
    LET call == [path |-> h.path,
                 params |-> IF mapping THEN RequestParams(h, params) ELSE <<>>]
    IN  IF outcome.kind = "transport"
          THEN [result |-> InternalServerError, calls |-> <<call>>]
        ELSE IF handle_rapidapi_response(outcome, action).raised
          THEN [result |-> InternalServerError, calls |-> <<call>>]
        ELSE [result |-> handle_rapidapi_response(outcome, action), calls |-> <<call>>]

\* ------------------------------------------------------------------ router
\* An inbound POST /twitter body: not parseable ("malformed"), a falsy JSON
\* value ("falsy": null, {}, [], 0), a truthy JSON value that is no object
\* ("nonobject"), or an object with an optional action and optional params
\* (params_kind "absent", "mapping", or "other" for null / a non-mapping).
NoObject(kind) ==
  [kind |-> kind, action |-> None, params_kind |-> "absent", params |-> EmptyParams]

Envelope(action, params_kind, params) ==
  [kind |-> "object", action |-> action, params_kind |-> params_kind, params |-> params]

\* The bodies the concurrent specification draws from: one the router
\* rejects, one that fails the handler's own check, and two that pass it,
\* for different actions.
Bodies ==
  { Envelope("not_a_real_action", "absent", EmptyParams),
    Envelope("get_user_by_username", "absent", EmptyParams),
    Envelope("get_user_by_username", "mapping", "username" :> "alice"),
    Envelope("get_user_tweets", "mapping", ("user" :> "u1") @@ ("user_id" :> "u2")) }

\* Every name a handler looks up in params.
ParamNames(h) ==
  {h.required[i] : i \in 1..Len(h.required)}
    \cup {h.defaults[i][1] : i \in 1..Len(h.defaults)}
    \cup {h.optional[i] : i \in 1..Len(h.optional)}

\* The params mappings the serial specification draws from for a handler:
\* each name it looks up is absent, present and empty, or present with a
\* value of its own.
ParamSamples(h) ==
  UNION { { [k \in D |-> IF e[k] THEN "v_" \o k ELSE ""] : e \in [D -> BOOLEAN] }
          : D \in SUBSET ParamNames(h) }

\* The bodies the serial specification draws from: those above, and for
\* every registered action every sample of its params, and params that is
\* no mapping.
AllBodies ==
  Bodies
    \cup { NoObject("malformed"), NoObject("falsy"), NoObject("nonobject"),
           Envelope(None, "absent", EmptyParams),
           Envelope("", "mapping", EmptyParams),
           Envelope("Get_User_Tweets", "mapping", "user" :> "v_user") }
    \cup UNION { { Envelope(a, "mapping", p) : p \in ParamSamples(ACTION_MAP[a]) }
                 : a \in DOMAIN ACTION_MAP }
    \cup { Envelope(a, "other", EmptyParams) : a \in DOMAIN ACTION_MAP }

\* data.get("params", {})
ParamsOf(body) == IF body.params_kind = "absent" THEN EmptyParams ELSE body.params

IsMapping(body) == body.params_kind # "other"

\* What Flask answers when a view raises: 500 with its own HTML page.
Unhandled == [status |-> 500, json |-> FALSE, body |-> [error |-> "Internal Server Error"]]

Json(status, body) == [status |-> status, json |-> TRUE, body |-> body]

NoResponse == [status |-> 0, json |-> FALSE, body |-> [error |-> ""]]

\* The response of a view, from what its Python code returned or raised.
ViewResponse(result) ==
  IF result.raised THEN Unhandled ELSE Json(result.status, result.body)

\* A router that looks at the credential only once the body is accepted.
RouterChecksCredentialLast(key, body) ==
  IF body.kind = "malformed"
    THEN [dispatch |-> FALSE,
          result |-> Returned(400, [error |-> "Invalid JSON in request body"])]
  ELSE IF body.kind = "falsy"
    THEN [dispatch |-> FALSE,
          result |-> Returned(400, [error |-> "Request body must be valid JSON"])]
  ELSE IF body.kind = "nonobject"
    THEN [dispatch |-> FALSE, result |-> Raised]
  ELSE IF ~Truthy(body.action)
    THEN [dispatch |-> FALSE,
          result |-> Returned(400, [error |-> "Missing required field: action"])]
  ELSE IF body.action \notin DOMAIN ACTION_MAP
    THEN [dispatch |-> FALSE,
          result |-> Returned(400, [error |-> "Invalid action: " \o body.action,
                                    available_actions |-> DOMAIN ACTION_MAP])]
  ELSE IF ~Truthy(key)
    THEN [dispatch |-> FALSE,
          result |-> Returned(500, [error |-> "RAPIDAPI_KEY environment variable not set"])]
  ELSE [dispatch |-> TRUE, result |-> Raised]

\* A router whose unknown-action answer leaves out the list of actions.
RouterChecksNoList(key, body) ==
  IF ~Truthy(key)
    THEN [dispatch |-> FALSE,
          result |-> Returned(500, [error |-> "RAPIDAPI_KEY environment variable not set"])]
  ELSE IF body.kind = "malformed"
    THEN [dispatch |-> FALSE,
          result |-> Returned(400, [error |-> "Invalid JSON in request body"])]
  ELSE IF body.kind = "falsy"
    THEN [dispatch |-> FALSE,
          result |-> Returned(400, [error |-> "Request body must be valid JSON"])]
  ELSE IF body.kind = "nonobject"
    THEN [dispatch |-> FALSE, result |-> Raised]
  ELSE IF ~Truthy(body.action)
    THEN [dispatch |-> FALSE,
          result |-> Returned(400, [error |-> "Missing required field: action"])]
  ELSE IF body.action \notin DOMAIN ACTION_MAP
    THEN [dispatch |-> FALSE,
          result |-> Returned(400, [error |-> "Invalid action: " \o body.action])]
  ELSE [dispatch |-> TRUE, result |-> Raised]

\* twitter_router up to its last line: the early return it takes, or
\* dispatch = TRUE when it goes on to call ACTION_MAP[action](params).
RouterChecks(key, body) ==
  IF ~Truthy(key)
    THEN [dispatch |-> FALSE,
          result |-> Returned(500, [error |-> "RAPIDAPI_KEY environment variable not set"])]
  ELSE IF body.kind = "malformed"
    THEN [dispatch |-> FALSE,
          result |-> Returned(400, [error |-> "Invalid JSON in request body"])]
  ELSE IF body.kind = "falsy"
    THEN [dispatch |-> FALSE,
          result |-> Returned(400, [error |-> "Request body must be valid JSON"])]
  ELSE IF body.kind = "nonobject"
    THEN [dispatch |-> FALSE, result |-> Raised]
  ELSE IF ~Truthy(body.action)
    THEN [dispatch |-> FALSE,
          result |-> Returned(400, [error |-> "Missing required field: action"])]
  ELSE IF body.action \notin DOMAIN ACTION_MAP
    THEN [dispatch |-> FALSE,
          result |-> Returned(400, [error |-> "Invalid action: " \o body.action,
                                    available_actions |-> DOMAIN ACTION_MAP])]
  ELSE [dispatch |-> TRUE, result |-> Raised]

\* ------------------------------------------------------------------- state
VARIABLES
  RAPIDAPI_KEY,       \* the credential read from the environment at start
  now,                \* the wall clock, what time.time() returns
  last_request_time,  \* the module global the wrapper reads and writes
  pc,                 \* where each request's thread is
  route,              \* the URL rule each request came in on
  body,               \* the inbound body of each request
  current_time,       \* wrapper local: time.time() at line 28
  sleep_time,         \* wrapper local: the sleep it computed (0: none)
  wake,               \* the instant a sleeping thread's time.sleep ends
  grant_time,         \* time.time() evaluated at line 37, not yet stored
  response,           \* the outbound response of each finished request
  sent,               \* the upstream GETs each request issued
  log,                \* the log lines each request's thread emitted
  writes,             \* every write of last_request_time, in order
  upstream,           \* what requests.get produced for each request
  seen,               \* how many writes came before the request's read
  solo,               \* the request ran the wrapper with no other in it
  gap                 \* time.time() - last_request_time as the wrapper starts

vars == <<RAPIDAPI_KEY, now, last_request_time, pc, route, body, current_time,
          sleep_time, wake, grant_time, response, sent, log, writes, upstream,
          seen, solo, gap>>

NoOutcome == [kind |-> "none", status_code |-> 0, text |-> ""]

StartTime == MIN_REQUEST_INTERVAL

InPacer(r) == pc[r] \in {"wrapper", "check", "sleeping", "grant", "store"}

\* A process whose last_request_time starts at the clock reading of its
\* own start instead of 0.
InitAtStamped(t) ==
  /\ RAPIDAPI_KEY \in {None, "", "key"}
  /\ now = t
  /\ last_request_time = t
  /\ pc = [r \in Reqs |-> "idle"]
  /\ route = [r \in Reqs |-> None]
  /\ body = [r \in Reqs |-> NoObject("malformed")]
  /\ current_time = [r \in Reqs |-> 0]
  /\ sleep_time = [r \in Reqs |-> 0]
  /\ wake = [r \in Reqs |-> 0]
  /\ grant_time = [r \in Reqs |-> 0]
  /\ response = [r \in Reqs |-> NoResponse]
  /\ sent = [r \in Reqs |-> <<>>]
  /\ log = [r \in Reqs |-> <<>>]
  /\ writes = <<>>
  /\ seen = [r \in Reqs |-> 0]
  /\ solo = [r \in Reqs |-> FALSE]
  /\ upstream = [r \in Reqs |-> NoOutcome]
  /\ gap = [r \in Reqs |-> 0]

\* The process right after start, the clock reading t.
InitAt(t) ==
  /\ RAPIDAPI_KEY \in {None, "", "key"}
  /\ now = t
  /\ last_request_time = 0
  /\ pc = [r \in Reqs |-> "idle"]
  /\ route = [r \in Reqs |-> None]
  /\ body = [r \in Reqs |-> NoObject("malformed")]
  /\ current_time = [r \in Reqs |-> 0]
  /\ sleep_time = [r \in Reqs |-> 0]
  /\ wake = [r \in Reqs |-> 0]
  /\ grant_time = [r \in Reqs |-> 0]
  /\ response = [r \in Reqs |-> NoResponse]
  /\ sent = [r \in Reqs |-> <<>>]
  /\ log = [r \in Reqs |-> <<>>]
  /\ writes = <<>>
  /\ seen = [r \in Reqs |-> 0]
  /\ solo = [r \in Reqs |-> FALSE]
  /\ upstream = [r \in Reqs |-> NoOutcome]
  /\ gap = [r \in Reqs |-> 0]

Init == InitAt(StartTime)

\* ----------------------------------------------------------------- actions
\* The clock advances.  It runs on past MaxTime only while a sleeper has
\* yet to reach its wake-up instant.
Tick ==
  /\ \/ now < MaxTime
     \/ \E r \in Reqs : pc[r] = "sleeping" /\ wake[r] > now
  /\ now' = now + 1
  /\ UNCHANGED <<RAPIDAPI_KEY, log, route, last_request_time, pc, body, current_time,
                 sleep_time, wake, grant_time, response, sent, writes, seen, solo, upstream, gap>>

\* POST /twitter arrives with body b: twitter_router runs to an early
\* return, or to the call of the decorated handler (the wrapper's entry).
\* A router that stamps last_request_time as the request comes in.
twitter_router_stamping(r, b) ==
  /\ pc[r] = "idle"
  /\ route' = [route EXCEPT ![r] = "/twitter"]
  /\ body' = [body EXCEPT ![r] = b]
  /\ last_request_time' = now
  /\ writes' = Append(writes, [req |-> r, value |-> now, at |-> now])
  /\ IF RouterChecks(RAPIDAPI_KEY, b).dispatch
       THEN /\ pc' = [pc EXCEPT ![r] = "wrapper"]
            /\ solo' = [q \in Reqs |-> IF InPacer(q) THEN FALSE ELSE solo[q]]
            /\ log' = [log EXCEPT ![r] = Append(log[r], RouterLog(b.action, ParamsOf(b)))]
            /\ UNCHANGED response
       ELSE /\ pc' = [pc EXCEPT ![r] = "done"]
            /\ response' = [response EXCEPT ![r] =
                            ViewResponse(RouterChecks(RAPIDAPI_KEY, b).result)]
            /\ UNCHANGED <<solo, log>>
  /\ UNCHANGED <<RAPIDAPI_KEY, now, current_time, sleep_time,
                 wake, grant_time, sent, seen, upstream, gap>>

\* A router that waits for a lock the pacer holds across its sleep.
twitter_router_locked(r, b) ==
  /\ pc[r] = "idle"
  /\ \A q \in Reqs : pc[q] # "sleeping"
  /\ route' = [route EXCEPT ![r] = "/twitter"]
  /\ body' = [body EXCEPT ![r] = b]
  /\ IF RouterChecks(RAPIDAPI_KEY, b).dispatch
       THEN /\ pc' = [pc EXCEPT ![r] = "wrapper"]
            /\ solo' = [q \in Reqs |-> IF InPacer(q) THEN FALSE ELSE solo[q]]
            /\ log' = [log EXCEPT ![r] = Append(log[r], RouterLog(b.action, ParamsOf(b)))]
            /\ UNCHANGED response
       ELSE /\ pc' = [pc EXCEPT ![r] = "done"]
            /\ response' = [response EXCEPT ![r] =
                            ViewResponse(RouterChecks(RAPIDAPI_KEY, b).result)]
            /\ UNCHANGED <<solo, log>>
  /\ UNCHANGED <<RAPIDAPI_KEY, now, last_request_time, current_time, sleep_time,
                 wake, grant_time, sent, writes, seen, upstream, gap>>

twitter_router(r, b) ==
  /\ pc[r] = "idle"
  /\ route' = [route EXCEPT ![r] = "/twitter"]
  /\ body' = [body EXCEPT ![r] = b]
  /\ IF RouterChecks(RAPIDAPI_KEY, b).dispatch
       THEN /\ pc' = [pc EXCEPT ![r] = "wrapper"]
            /\ solo' = [q \in Reqs |-> IF InPacer(q) THEN FALSE ELSE solo[q]]
            /\ log' = [log EXCEPT ![r] = Append(log[r], RouterLog(b.action, ParamsOf(b)))]
            /\ UNCHANGED response
       ELSE /\ pc' = [pc EXCEPT ![r] = "done"]
            /\ response' = [response EXCEPT ![r] = ViewResponse(RouterChecks(RAPIDAPI_KEY, b).result)]
            /\ UNCHANGED <<solo, log>>
  /\ UNCHANGED <<RAPIDAPI_KEY, now, last_request_time, current_time, sleep_time,
                 wake, grant_time, sent, writes, seen, upstream, gap>>

\* What GET /health and GET / answer.  The list of keys is kept as the set
\* of names and the timestamp as an opaque text.
HealthBody ==
  [status |-> "healthy",
   timestamp |-> "<datetime.now().isoformat()>",
   available_actions |-> DOMAIN ACTION_MAP,
   total_endpoints |-> Cardinality(DOMAIN ACTION_MAP)]

RootBody ==
  [service |-> "Twitter241 API Webhook",
   endpoints |-> <<"/twitter", "/health">>,
   total_available_actions |-> Cardinality(DOMAIN ACTION_MAP),
   available_actions |-> DOMAIN ACTION_MAP,
   usage |-> "POST to /twitter with JSON body containing 'action' and 'params' fields"]

\* A health check that first asks for the credential, as the router does.
health_check_keyed(r) ==
  /\ pc[r] = "idle"
  /\ route' = [route EXCEPT ![r] = "/health"]
  /\ pc' = [pc EXCEPT ![r] = "done"]
  /\ response' = [response EXCEPT ![r] =
       IF Truthy(RAPIDAPI_KEY) THEN Json(200, HealthBody)
       ELSE Json(500, [error |-> "RAPIDAPI_KEY environment variable not set"])]
  /\ UNCHANGED <<RAPIDAPI_KEY, log, now, last_request_time, body, current_time, sleep_time,
                 wake, grant_time, sent, writes, seen, solo, upstream, gap>>

\* GET /health
health_check(r) ==
  /\ pc[r] = "idle"
  /\ route' = [route EXCEPT ![r] = "/health"]
  /\ pc' = [pc EXCEPT ![r] = "done"]
  /\ response' = [response EXCEPT ![r] = Json(200, HealthBody)]
  /\ UNCHANGED <<RAPIDAPI_KEY, log, now, last_request_time, body, current_time, sleep_time,
                 wake, grant_time, sent, writes, seen, solo, upstream, gap>>

\* GET /
root(r) ==
  /\ pc[r] = "idle"
  /\ route' = [route EXCEPT ![r] = "/"]
  /\ pc' = [pc EXCEPT ![r] = "done"]
  /\ response' = [response EXCEPT ![r] = Json(200, RootBody)]
  /\ UNCHANGED <<RAPIDAPI_KEY, log, now, last_request_time, body, current_time, sleep_time,
                 wake, grant_time, sent, writes, seen, solo, upstream, gap>>

\* wrapper, line 28: current_time = time.time()
WrapperReadClock(r) ==
  /\ pc[r] = "wrapper"
  /\ current_time' = [current_time EXCEPT ![r] = now]
  /\ solo' = [solo EXCEPT ![r] = \A q \in Reqs \ {r} : ~InPacer(q)]
  /\ gap' = [gap EXCEPT ![r] = now - last_request_time]
  /\ pc' = [pc EXCEPT ![r] = "check"]
  /\ UNCHANGED <<RAPIDAPI_KEY, log, route, now, last_request_time, body, sleep_time, wake,
                 grant_time, response, sent, writes, seen, upstream>>

\* wrapper, lines 31-35: read last_request_time, compare, start the sleep
\* The subtraction with its operands the wrong way round.
TimeSinceLastSwapped(r) == last_request_time - current_time[r]

\* A pacer that keeps one time stamp per action: a grant for another action
\* does not count.
TimeSinceLastPerAction(r) ==
  IF writes # <<>> /\ body[writes[Len(writes)].req].action # body[r].action
    THEN current_time[r]
    ELSE current_time[r] - last_request_time

TimeSinceLast(r) == current_time[r] - last_request_time

\* A pacer that sleeps the whole interval whenever it sleeps.
WrapperCheckFullSleep(r) ==
  /\ pc[r] = "check"
  /\ seen' = [seen EXCEPT ![r] = Len(writes)]
  /\ current_time' = [current_time EXCEPT ![r] = 0]
  /\ IF TimeSinceLast(r) < MIN_REQUEST_INTERVAL
       THEN /\ sleep_time' = [sleep_time EXCEPT ![r] = MIN_REQUEST_INTERVAL]
            /\ wake' = [wake EXCEPT ![r] = now + MIN_REQUEST_INTERVAL]
            /\ pc' = [pc EXCEPT ![r] = "sleeping"]
            /\ log' = [log EXCEPT ![r] = Append(log[r], SleepLog(MIN_REQUEST_INTERVAL))]
       ELSE /\ pc' = [pc EXCEPT ![r] = "grant"]
            /\ UNCHANGED <<sleep_time, wake, log>>
  /\ UNCHANGED <<RAPIDAPI_KEY, route, now, last_request_time, body,
                 grant_time, response, sent, writes, solo, upstream, gap>>

WrapperCheck(r) ==
  /\ pc[r] = "check"
  /\ seen' = [seen EXCEPT ![r] = Len(writes)]
  /\ current_time' = [current_time EXCEPT ![r] = 0]
  /\ IF TimeSinceLast(r) < MIN_REQUEST_INTERVAL
       THEN /\ sleep_time' = [sleep_time EXCEPT ![r] = MIN_REQUEST_INTERVAL - TimeSinceLast(r)]
            /\ wake' = [wake EXCEPT ![r] = now + (MIN_REQUEST_INTERVAL - TimeSinceLast(r))]
            /\ pc' = [pc EXCEPT ![r] = "sleeping"]
            /\ log' = [log EXCEPT ![r] =
                         Append(log[r], SleepLog(MIN_REQUEST_INTERVAL - TimeSinceLast(r)))]
       ELSE /\ pc' = [pc EXCEPT ![r] = "grant"]
            /\ UNCHANGED <<sleep_time, wake, log>>
  /\ UNCHANGED <<RAPIDAPI_KEY, route, now, last_request_time, body,
                 grant_time, response, sent, writes, solo, upstream, gap>>

\* A sleep that ends only if the thread runs at the very instant asked for.
WrapperWakeExact(r) ==
  /\ pc[r] = "sleeping"
  /\ now = wake[r]
  /\ pc' = [pc EXCEPT ![r] = "grant"]
  /\ wake' = [wake EXCEPT ![r] = 0]
  /\ UNCHANGED <<RAPIDAPI_KEY, log, route, now, last_request_time, body, current_time,
                 sleep_time, grant_time, response, sent, writes, seen, solo, upstream, gap>>

\* time.sleep returns, no earlier than the instant asked for
WrapperWake(r) ==
  /\ pc[r] = "sleeping"
  /\ now >= wake[r]
  /\ pc' = [pc EXCEPT ![r] = "grant"]
  /\ wake' = [wake EXCEPT ![r] = 0]
  /\ UNCHANGED <<RAPIDAPI_KEY, log, route, now, last_request_time, body, current_time,
                 sleep_time, grant_time, response, sent, writes, seen, solo, upstream, gap>>

\* wrapper, line 37, right-hand side: time.time() is evaluated
WrapperGrantClock(r) ==
  /\ pc[r] = "grant"
  /\ grant_time' = [grant_time EXCEPT ![r] = now]
  /\ pc' = [pc EXCEPT ![r] = "store"]
  /\ UNCHANGED <<RAPIDAPI_KEY, log, route, now, last_request_time, body, current_time,
                 sleep_time, wake, response, sent, writes, seen, solo, upstream, gap>>

\* A wrapper without the `global` statement: line 37 binds a local name.
WrapperStoreLocal(r) ==
  /\ pc[r] = "store"
  /\ pc' = [pc EXCEPT ![r] = "handler"]
  /\ grant_time' = [grant_time EXCEPT ![r] = 0]
  /\ UNCHANGED <<RAPIDAPI_KEY, log, route, now, last_request_time, body, current_time,
                 sleep_time, wake, response, sent, writes, seen, solo, upstream, gap>>

\* wrapper, line 37, the store into the global
WrapperStore(r) ==
  /\ pc[r] = "store"
  /\ last_request_time' = grant_time[r]
  /\ writes' = Append(writes, [req |-> r, value |-> grant_time[r], at |-> now])
  /\ pc' = [pc EXCEPT ![r] = "handler"]
  /\ grant_time' = [grant_time EXCEPT ![r] = 0]
  /\ UNCHANGED <<RAPIDAPI_KEY, log, route, now, body, current_time, sleep_time, wake,
                 response, sent, seen, solo, upstream, gap>>

\* A handler that backs off after a rate limit or a refused credential: it
\* moves last_request_time ahead by one more interval.
HandlerBackoff(r, o) ==
  /\ pc[r] = "handler"
  /\ LET run == HandlerBody(body[r].action, IsMapping(body[r]), ParamsOf(body[r]), o)
     IN  /\ response' = [response EXCEPT ![r] = ViewResponse(run.result)]
         /\ sent' = [sent EXCEPT ![r] = sent[r] \o run.calls]
         /\ upstream' = [upstream EXCEPT ![r] = IF run.calls = <<>> THEN NoOutcome ELSE o]
         /\ log' = [log EXCEPT ![r] = log[r] \o
                    HandlerLogs(body[r].action, IsMapping(body[r]), ParamsOf(body[r]), o)]
         /\ last_request_time' =
              IF run.calls # <<>> /\ o.status_code \in {429, 401}
                THEN now + MIN_REQUEST_INTERVAL
                ELSE last_request_time
  /\ pc' = [pc EXCEPT ![r] = "done"]
  /\ UNCHANGED <<RAPIDAPI_KEY, route, now, body, current_time,
                 sleep_time, wake, grant_time, writes, seen, solo, gap>>

\* wrapper, line 38: the handler runs; requests.get, if reached, produces o
Handler(r, o) ==
  /\ pc[r] = "handler"
  /\ LET run == HandlerBody(body[r].action, IsMapping(body[r]), ParamsOf(body[r]), o)
     IN  /\ response' = [response EXCEPT ![r] = ViewResponse(run.result)]
         /\ sent' = [sent EXCEPT ![r] = sent[r] \o run.calls]
         /\ upstream' = [upstream EXCEPT ![r] = IF run.calls = <<>> THEN NoOutcome ELSE o]
         /\ log' = [log EXCEPT ![r] = log[r] \o
                    HandlerLogs(body[r].action, IsMapping(body[r]), ParamsOf(body[r]), o)]
  /\ pc' = [pc EXCEPT ![r] = "done"]
  /\ UNCHANGED <<RAPIDAPI_KEY, route, now, last_request_time, body, current_time,
                 sleep_time, wake, grant_time, writes, seen, solo, gap>>

Next ==
  \/ Tick
  \/ \E r \in Reqs, b \in Bodies : twitter_router(r, b)
  \/ \E r \in Reqs : health_check(r)
  \/ \E r \in Reqs : root(r)
  \/ \E r \in Reqs : WrapperReadClock(r)
  \/ \E r \in Reqs : WrapperCheck(r)
  \/ \E r \in Reqs : WrapperWake(r)
  \/ \E r \in Reqs : WrapperGrantClock(r)
  \/ \E r \in Reqs : WrapperStore(r)
  \/ \E r \in Reqs, o \in PacedOutcomes : Handler(r, o)

Spec == Init /\ [][Next]_vars

\* The scheduling the threaded server gives: the clock advances, and a
\* thread that can take its next step in the wrapper eventually takes it.
Fairness ==
  /\ WF_vars(Tick)
  /\ \A r \in Reqs :
       /\ WF_vars(WrapperReadClock(r))
       /\ WF_vars(WrapperCheck(r))
       /\ WF_vars(WrapperWake(r))
       /\ WF_vars(WrapperGrantClock(r))
       /\ WF_vars(WrapperStore(r))

\* The pacer on its own: every request is dispatched to the same handler
\* and gets the same upstream answer, so only the wrapper's steps differ.
PacedBody == Envelope("get_user_by_username", "mapping", "username" :> "alice")

PacedOutcome == [kind |-> "response", status_code |-> 200, text |-> "{\"id\":\"1\"}"]

NextPacer ==
  \/ Tick
  \/ \E r \in Reqs : twitter_router(r, PacedBody)
  \/ \E r \in Reqs : WrapperReadClock(r)
  \/ \E r \in Reqs : WrapperCheck(r)
  \/ \E r \in Reqs : WrapperWake(r)
  \/ \E r \in Reqs : WrapperGrantClock(r)
  \/ \E r \in Reqs : WrapperStore(r)
  \/ \E r \in Reqs : Handler(r, PacedOutcome)

FairSpec == Init /\ [][NextPacer]_vars /\ Fairness

\* Two requests with the same body, each getting any upstream outcome: two
\* runs of one request side by side.
NextTwin ==
  \/ Tick
  \/ \E r \in Reqs : twitter_router(r, PacedBody)
  \/ \E r \in Reqs : WrapperReadClock(r)
  \/ \E r \in Reqs : WrapperCheck(r)
  \/ \E r \in Reqs : WrapperWake(r)
  \/ \E r \in Reqs : WrapperGrantClock(r)
  \/ \E r \in Reqs : WrapperStore(r)
  \/ \E r \in Reqs, o \in Outcomes : Handler(r, o)

Twin == Init /\ [][NextTwin]_vars

\* The process after it served request 2, alone, at MaxTime.
ServedOne ==
  /\ RAPIDAPI_KEY = "key"
  /\ now = MaxTime
  /\ last_request_time = MaxTime
  /\ pc = [r \in Reqs |-> IF r = 2 THEN "done" ELSE "idle"]
  /\ route = [r \in Reqs |-> IF r = 2 THEN "/twitter" ELSE None]
  /\ body = [r \in Reqs |-> IF r = 2
               THEN Envelope("get_user_by_username", "mapping", "username" :> "alice")
               ELSE NoObject("malformed")]
  /\ current_time = [r \in Reqs |-> 0]
  /\ sleep_time = [r \in Reqs |-> 0]
  /\ wake = [r \in Reqs |-> 0]
  /\ grant_time = [r \in Reqs |-> 0]
  /\ response = [r \in Reqs |-> IF r = 2 THEN Json(200, [id |-> "1"]) ELSE NoResponse]
  /\ sent = [r \in Reqs |-> IF r = 2
               THEN <<[path |-> "/user", params |-> << <<"username", "alice">> >>]>>
               ELSE <<>>]
  /\ log = [r \in Reqs |-> IF r = 2
              THEN <<RouterLog("get_user_by_username", "username" :> "alice"),
                     log_request("get_user_by_username", "username" :> "alice", 200)>>
              ELSE <<>>]
  /\ writes = <<[req |-> 2, value |-> MaxTime, at |-> MaxTime]>>
  /\ upstream = [r \in Reqs |-> IF r = 2
                   THEN [kind |-> "response", status_code |-> 200, text |-> "{\"id\":\"1\"}"]
                   ELSE NoOutcome]
  /\ seen = [r \in Reqs |-> 0]
  /\ solo = [r \in Reqs |-> r = 2]
  /\ gap = [r \in Reqs |-> IF r = 2 THEN MaxTime ELSE 0]

\* Request 1 served alone, with any body and any upstream outcome, either as
\* the first request of the process or right after request 2 was served.
InitSerial == InitAt(MaxTime) \/ ServedOne

NextSerial ==
  \/ Tick
  \/ \E b \in AllBodies : twitter_router(1, b)
  \/ health_check(1)
  \/ root(1)
  \/ WrapperReadClock(1)
  \/ WrapperCheck(1)
  \/ WrapperWake(1)
  \/ WrapperGrantClock(1)
  \/ WrapperStore(1)
  \/ \E o \in Outcomes : Handler(1, o)

Serial == InitSerial /\ [][NextSerial]_vars

\* The process after it served, at StartTime, an earlier request whose
\* thread has ended; the requests of Reqs have yet to arrive.
ServedEarlier ==
  /\ RAPIDAPI_KEY = "key"
  /\ now = StartTime
  /\ last_request_time = StartTime
  /\ pc = [r \in Reqs |-> "idle"]
  /\ route = [r \in Reqs |-> None]
  /\ body = [r \in Reqs |-> NoObject("malformed")]
  /\ current_time = [r \in Reqs |-> 0]
  /\ sleep_time = [r \in Reqs |-> 0]
  /\ wake = [r \in Reqs |-> 0]
  /\ grant_time = [r \in Reqs |-> 0]
  /\ response = [r \in Reqs |-> NoResponse]
  /\ sent = [r \in Reqs |-> <<>>]
  /\ log = [r \in Reqs |-> <<>>]
  /\ writes = <<>>
  /\ seen = [r \in Reqs |-> 0]
  /\ solo = [r \in Reqs |-> FALSE]
  /\ upstream = [r \in Reqs |-> NoOutcome]
  /\ gap = [r \in Reqs |-> 0]

\* The requests of Reqs arriving at a process that is either fresh or has
\* just served an earlier request, so that one of them can be asleep in the
\* pacer while the other arrives.
InitBusy == Init \/ ServedEarlier

Busy == InitBusy /\ [][Next]_vars

\* ------------------------------------------------------------ properties
Granted(r) == \E i \in 1..Len(writes) : writes[i].req = r

\* The body names a registered action whose required alias group is missing.
MissingRequired(b) ==
  /\ b.kind = "object"
  /\ b.action \in DOMAIN ACTION_MAP
  /\ IsMapping(b)
  /\ ACTION_MAP[b.action].required # <<>>
  /\ ~Truthy(RequiredValue(ACTION_MAP[b.action], ParamsOf(b)))

\* The body gets past the router and past the handler's own check.
PassesValidation(b) ==
  /\ b.kind = "object"
  /\ b.action \in DOMAIN ACTION_MAP
  /\ IsMapping(b) \/ ~ReadsParams(ACTION_MAP[b.action])
  /\ \/ ACTION_MAP[b.action].required = <<>>
     \/ Truthy(RequiredValue(ACTION_MAP[b.action], ParamsOf(b)))

\* C1: the instants at which the wrappers write last_request_time are
\* pairwise at least MIN_REQUEST_INTERVAL apart, so N grants span at least
\* (N-1) * MIN_REQUEST_INTERVAL.
PacingInvariant ==
  /\ \A i, j \in 1..Len(writes) :
       i < j => writes[j].at - writes[i].at >= MIN_REQUEST_INTERVAL
  /\ Len(writes) >= 1 =>
       writes[Len(writes)].at - writes[1].at >= (Len(writes) - 1) * MIN_REQUEST_INTERVAL

\* C2: no two granted callers computed their wait from the same value of
\* last_request_time (the value left by the same number of earlier writes).
AtomicCriticalSection ==
  \A i, j \in 1..Len(writes) :
    i # j => seen[writes[i].req] # seen[writes[j].req]

\* C3: the values written to last_request_time, in the order of the writes,
\* never decrease, and when a wrapper hands over to its handler the clock is
\* not behind last_request_time.
MonotonicDispatchTime ==
  /\ \A i, j \in 1..Len(writes) : i < j => writes[i].value <= writes[j].value
  /\ \A r \in Reqs : pc[r] = "handler" => now - last_request_time >= 0

\* C4: a request for a registered action whose required parameter is missing
\* is answered 400 without entering the pacer: it does not sleep, does not
\* write last_request_time and calls upstream zero times.
ValidationPrecedesPacing ==
  \A r \in Reqs :
    (pc[r] # "idle" /\ Truthy(RAPIDAPI_KEY) /\ MissingRequired(body[r])) =>
      /\ ~InPacer(r)
      /\ ~Granted(r)
      /\ sleep_time[r] = 0
      /\ sent[r] = <<>>
      /\ pc[r] = "done" => response[r].status = 400

\* C5: with RAPIDAPI_KEY unset every POST /twitter is answered 500 with the
\* credential error, whatever its body; no request enters the pacer,
\* last_request_time is never written and no upstream call is made.
CredentialGate ==
  ~Truthy(RAPIDAPI_KEY) =>
    /\ last_request_time = 0
    /\ writes = <<>>
    /\ \A r \in Reqs :
         /\ pc[r] \in {"idle", "done"}
         /\ sleep_time[r] = 0
         /\ sent[r] = <<>>
         /\ (pc[r] = "done" /\ route[r] = "/twitter") =>
              response[r] = Json(500, [error |-> "RAPIDAPI_KEY environment variable not set"])

CredentialGateWitness ==
  /\ RAPIDAPI_KEY = None
  /\ pc[1] = "done"
  /\ body[1] = Envelope("get_user_tweets", "mapping", "user" :> "v_user")
  /\ response[1].status = 500

\* C6: a finished request made exactly one upstream call if it passed
\* validation, whatever the upstream outcome, and none otherwise; no request
\* ever makes two.
ExactlyOneUpstreamCall ==
  \A r \in Reqs :
    /\ Len(sent[r]) <= 1
    /\ pc[r] # "done" => sent[r] = <<>>
    /\ pc[r] = "done" =>
         Len(sent[r]) = IF Truthy(RAPIDAPI_KEY) /\ PassesValidation(body[r]) THEN 1 ELSE 0

ExactlyOneUpstreamCallWitness ==
  /\ pc[1] = "done"
  /\ body[1].action = "get_community_topics"
  /\ upstream[1].status_code = 429
  /\ Len(sent[1]) = 1

\* C7: every request that enters the wrapper is eventually granted (it
\* writes last_request_time and calls its handler), and the sleep it asks
\* for is never negative, so time.sleep never raises.
PacingAlwaysGrants ==
  /\ \A r \in Reqs : (pc[r] = "wrapper") ~> (pc[r] = "handler")
  /\ [](\A r \in Reqs : pc[r] = "sleeping" => sleep_time[r] > 0)

PacingAlwaysGrantsWitness ==
  \E r \in Reqs : pc[r] = "handler" /\ sleep_time[r] > 0 /\ Granted(r)

\* C8: a wrapper invocation that starts more than MIN_REQUEST_INTERVAL after
\* the last grant, and overlaps no other invocation, does not sleep.
NoWaitWhenIdle ==
  \A r \in Reqs :
    (solo[r] /\ gap[r] > MIN_REQUEST_INTERVAL) =>
      pc[r] # "sleeping" /\ sleep_time[r] = 0

NoWaitWhenIdleWitness ==
  \E r \in Reqs :
    /\ solo[r] /\ gap[r] > MIN_REQUEST_INTERVAL
    /\ Len(writes) = 2 /\ writes[2].req = r
    /\ pc[r] = "done"

\* C9: for a received upstream response: 200 with a JSON body gives 200 with
\* that JSON value; 429 gives 429 with status "rate_limited" and error and
\* suggestion fields; 401 gives 401 with the fixed authentication message;
\* any other status c gives c with "API request failed with status c".
StatusMapping ==
  \A r \in Reqs :
    (pc[r] = "done" /\ upstream[r].kind = "response") =>
      LET c == upstream[r].status_code
          t == upstream[r].text
      IN  /\ (c = 200 /\ t = "{\"id\":\"1\"}") => response[r] = Json(200, [id |-> "1"])
          /\ (c = 200 /\ ResponseJson(t).ok) => response[r] = Json(200, ResponseJson(t).value)
          /\ c = 429 =>
               /\ response[r].status = 429
               /\ response[r].json
               /\ {"error", "suggestion", "status"} \subseteq DOMAIN response[r].body
               /\ response[r].body.status = "rate_limited"
          /\ c = 401 =>
               response[r] = Json(401, [error |-> "Invalid API key or authentication failed."])
          /\ c \notin {200, 429, 401} =>
               response[r] = Json(c, [error |-> "API request failed with status " \o ToString(c)])

StatusMappingWitness ==
  /\ pc[1] = "done"
  /\ upstream[1].kind = "response" /\ upstream[1].status_code = 401
  /\ response[1].status = 401
  /\ body[1].action = "search_jobs"

\* C10, as stated: a transport failure is answered 500 with the body of the
\* "any other status" row, {error: "API request failed with status <code>"}.
TransportFailureMapping ==
  \A r \in Reqs :
    (pc[r] = "done" /\ upstream[r].kind = "transport") =>
      /\ response[r].status = 500
      /\ \E c \in {0} \cup UpstreamStatuses :
           response[r].body = [error |-> "API request failed with status " \o ToString(c)]

\* C10, amended: a transport failure is answered 500 with the body
\* {error: "Internal server error"}.
TransportFailureInternalError ==
  \A r \in Reqs :
    (pc[r] = "done" /\ upstream[r].kind = "transport") =>
      response[r] = Json(500, [error |-> "Internal server error"])

TransportFailureWitness ==
  /\ pc[1] = "done"
  /\ upstream[1].kind = "transport"
  /\ Len(sent[1]) = 1
  /\ response[1].status = 500

\* The value a query carries under key k (None: the key is not in it).
QueryHas(q, k) == \E i \in 1..Len(q) : q[i][1] = k

QueryGet(q, k) == IF QueryHas(q, k) THEN q[CHOOSE i \in 1..Len(q) : q[i][1] = k][2] ELSE None

\* The request was a well-formed envelope for a registered action with a
\* params mapping, served with the credential set.
Dispatched(r) ==
  /\ pc[r] = "done"
  /\ Truthy(RAPIDAPI_KEY)
  /\ body[r].kind = "object"
  /\ body[r].action \in DOMAIN ACTION_MAP
  /\ IsMapping(body[r])

\* C11: with the credential set, an action that is non-empty and not exactly
\* a key of ACTION_MAP is answered 400 with the full list of registered
\* action names, and no upstream call is made.
UnknownAction ==
  \A r \in Reqs :
    (/\ pc[r] = "done"
     /\ Truthy(RAPIDAPI_KEY)
     /\ body[r].kind = "object"
     /\ Truthy(body[r].action)
     /\ body[r].action \notin DOMAIN ACTION_MAP) =>
      /\ response[r].status = 400
      /\ response[r].json
      /\ "available_actions" \in DOMAIN response[r].body
      /\ response[r].body.available_actions = DOMAIN ACTION_MAP
      /\ sent[r] = <<>>

UnknownActionWitness ==
  /\ RAPIDAPI_KEY = "key"
  /\ pc[1] = "done"
  /\ body[1].action = "Get_User_Tweets"
  /\ response[1].status = 400

\* Every alias of the action's required group is absent or empty.
AllAliasesMissing(b) ==
  LET h == ACTION_MAP[b.action] IN
  /\ h.required # <<>>
  /\ \A i \in 1..Len(h.required) :
       h.required[i] \notin DOMAIN ParamsOf(b) \/ ParamsOf(b)[h.required[i]] = ""

\* C12: a request in which every alias of the action's required group is
\* absent or empty is answered 400 with a message naming the accepted
\* aliases ("username", "user or user_id"), and makes no upstream call.
MissingRequiredParameter ==
  \A r \in Reqs :
    (Dispatched(r) /\ AllAliasesMissing(body[r])) =>
      LET h == ACTION_MAP[body[r].action] IN
      /\ response[r].status = 400
      /\ response[r].json
      /\ response[r].body =
           [error |-> "Missing required parameter: " \o
                        (IF Len(h.required) = 1 THEN h.required[1]
                         ELSE h.required[1] \o " or " \o h.required[2])]
      /\ body[r].action = "get_user_by_username" =>
           response[r].body.error = "Missing required parameter: username"
      /\ body[r].action = "get_user_tweets" =>
           response[r].body.error = "Missing required parameter: user or user_id"
      /\ sent[r] = <<>>

MissingRequiredParameterWitness ==
  /\ Dispatched(1)
  /\ body[1].action = "get_user_tweets"
  /\ ParamsOf(body[1]) = ("user" :> "") @@ ("count" :> "v_count")
  /\ response[1].status = 400

\* The alias groups in their documented order.
DocumentedAliasOrder ==
  { <<"user", "user_id">>, <<"pid", "post_id">>, <<"tweet_id", "pid">>,
    <<"id", "space_id">>, <<"id", "org_id">>, <<"listId", "list_id">>,
    <<"communityId", "community_id">>, <<"jobId", "job_id">> }

\* C13: when both aliases of a group are present and non-empty, the one
\* upstream query carries the value of the first alias of the documented
\* order, under the action's upstream name: the query is a function of the
\* envelope.
AliasPrecedence ==
  \A r \in Reqs :
    (/\ Dispatched(r)
     /\ Len(ACTION_MAP[body[r].action].required) = 2
     /\ \A i \in 1..2 :
          Truthy(Get(ParamsOf(body[r]), ACTION_MAP[body[r].action].required[i]))) =>
      LET h == ACTION_MAP[body[r].action] IN
      /\ h.required \in DocumentedAliasOrder
      /\ Len(sent[r]) = 1
      /\ sent[r][1].params[1] = <<h.upstream, ParamsOf(body[r])[h.required[1]]>>
      /\ \A i \in 2..Len(sent[r][1].params) : sent[r][1].params[i][1] # h.upstream

AliasPrecedenceWitness ==
  /\ Dispatched(1)
  /\ body[1].action = "get_tweet_details"
  /\ ParamsOf(body[1]) = ("tweet_id" :> "v_tweet_id") @@ ("pid" :> "v_pid")
  /\ Len(sent[1]) = 1
  /\ QueryGet(sent[1][1].params, "pid") = "v_tweet_id"

\* The action sends cursor only when it is truthy.
AcceptsCursor(a) ==
  \E i \in 1..Len(ACTION_MAP[a].optional) : ACTION_MAP[a].optional[i] = "cursor"

\* C14: for an action with an optional cursor, a request with no cursor or
\* an empty cursor sends a query with no cursor key; a non-empty cursor is
\* sent unchanged.
OptionalCursorOmission ==
  \A r \in Reqs :
    (Dispatched(r) /\ AcceptsCursor(body[r].action) /\ sent[r] # <<>>) =>
      LET p == ParamsOf(body[r])
          q == sent[r][1].params
      IN  IF "cursor" \in DOMAIN p /\ p["cursor"] # ""
            THEN QueryGet(q, "cursor") = p["cursor"]
            ELSE ~QueryHas(q, "cursor")

OptionalCursorOmissionWitness ==
  /\ Dispatched(1)
  /\ body[1].action = "search_jobs"
  /\ ParamsOf(body[1]) = ("query" :> "v_query") @@ ("cursor" :> "")
  /\ Len(sent[1]) = 1
  /\ ~QueryHas(sent[1][1].params, "cursor")

\* C15: no upstream query carries count, type, cursor, location or woeid
\* with an empty-string value.
NoEmptyOptionalValues ==
  \A r \in Reqs :
    (Dispatched(r) /\ sent[r] # <<>>) =>
      \A k \in {"count", "type", "cursor", "location", "woeid"} :
        QueryHas(sent[r][1].params, k) => QueryGet(sent[r][1].params, k) # ""

\* C16: GET /health and GET / answer 200 with every key of ACTION_MAP,
\* whether or not the credential is set; such a request never enters the
\* pacer, never sleeps, never writes last_request_time and calls upstream
\* zero times, also while other requests are in the pacer.
DiscoveryUnpaced ==
  \A r \in Reqs :
    route[r] \in {"/health", "/"} =>
      /\ pc[r] = "done"
      /\ response[r].status = 200
      /\ response[r].json
      /\ response[r].body.available_actions = DOMAIN ACTION_MAP
      /\ sleep_time[r] = 0
      /\ ~Granted(r)
      /\ sent[r] = <<>>

DiscoveryUnpacedWitness ==
  \E r, q \in Reqs :
    /\ route[r] = "/health" /\ pc[r] = "done"
    /\ pc[q] = "sleeping" /\ wake[q] > now

\* C17: every finished POST /twitter request, whatever its body, was
\* answered with a JSON body and a status code, never by an exception that
\* left the view unhandled.
StructuredFailure ==
  \A r \in Reqs :
    (pc[r] = "done" /\ route[r] = "/twitter") =>
      /\ response[r].json
      /\ response[r] # Unhandled

\* C18: while a request is asleep in the pacer, any request that has yet to
\* arrive can be served at once if the router rejects it or if it is a
\* discovery request: its view runs to its response at the same instant,
\* nothing makes it wait for the sleeper.
SleepBlocksOnlySleeper ==
  \A q, r \in Reqs :
    (pc[q] = "sleeping" /\ wake[q] > now /\ pc[r] = "idle") =>
      /\ \A b \in Bodies :
           ~RouterChecks(RAPIDAPI_KEY, b).dispatch =>
             ENABLED (twitter_router(r, b) /\ pc'[r] = "done" /\ pc'[q] = "sleeping")
      /\ ENABLED (health_check(r) /\ pc'[r] = "done" /\ pc'[q] = "sleeping")
      /\ ENABLED (root(r) /\ pc'[r] = "done" /\ pc'[q] = "sleeping")

SleepBlocksOnlySleeperWitness ==
  \E q, r \in Reqs :
    /\ pc[q] = "sleeping" /\ wake[q] > now
    /\ pc[r] = "done" /\ route[r] = "/twitter"
    /\ response[r].status = 400
    /\ ~Granted(r)

\* The router itself turns the body down: it is no JSON, it is empty, it
\* has no action or the action is not registered.
EnvelopeRejected(b) ==
  \/ b.kind \in {"malformed", "falsy"}
  \/ /\ b.kind = "object"
     /\ ~Truthy(b.action) \/ b.action \notin DOMAIN ACTION_MAP

\* C19: with the credential set, a POST /twitter request the router turns
\* down at the envelope is answered 400 without having entered the pacer:
\* it never slept, never wrote last_request_time and called upstream zero
\* times.
EnvelopeRejectionUnpaced ==
  \A r \in Reqs :
    (Truthy(RAPIDAPI_KEY) /\ route[r] = "/twitter" /\ EnvelopeRejected(body[r])) =>
      /\ pc[r] = "done"
      /\ response[r].json /\ response[r].status = 400
      /\ sleep_time[r] = 0
      /\ ~Granted(r)
      /\ sent[r] = <<>>

EnvelopeRejectionUnpacedWitness ==
  \E r \in Reqs :
    /\ Truthy(RAPIDAPI_KEY) /\ route[r] = "/twitter"
    /\ body[r].kind = "object" /\ body[r].action = ""
    /\ response[r].status = 400
    /\ last_request_time = MaxTime

\* The writes of last_request_time request r has made.
Grants(r) == {i \in 1..Len(writes) : writes[i].req = r}

\* C20: a request issues an upstream GET only after its own write of
\* last_request_time, and it issues at most one: the step that sends finds
\* the request already granted, exactly once, and with nothing sent so far.
GrantThenDispatch ==
  [][\A r \in Reqs :
       sent'[r] # sent[r] =>
         /\ Cardinality(Grants(r)) = 1
         /\ sent[r] = <<>>
         /\ Len(sent'[r]) = 1
         /\ writes' = writes]_vars

GrantThenDispatchWitness ==
  \E r, q \in Reqs :
    /\ r # q
    /\ Len(sent[r]) = 1 /\ Cardinality(Grants(r)) = 1
    /\ Len(sent[q]) = 1 /\ Cardinality(Grants(q)) = 1
    /\ pc[r] = "done" /\ pc[q] = "done"

\* C21: the sleep a request computes in the pacer is greater than 0 and at
\* most MIN_REQUEST_INTERVAL, so that no request waits in the pacer for
\* longer than MIN_REQUEST_INTERVAL.
SingleBoundedSuspension ==
  \A r \in Reqs :
    sleep_time[r] # 0 =>
      /\ sleep_time[r] > 0
      /\ sleep_time[r] <= MIN_REQUEST_INTERVAL

\* C22: one last_request_time gates every action: a request whose pacer
\* invocation overlaps no other, and that follows the grant of a request
\* for a different action, is granted no earlier than that grant plus
\* MIN_REQUEST_INTERVAL.
PacingAcrossActions ==
  \A i \in 2..Len(writes) :
    (/\ solo[writes[i].req]
     /\ body[writes[i].req].action # body[writes[i-1].req].action) =>
      writes[i].value >= writes[i-1].value + MIN_REQUEST_INTERVAL

PacingAcrossActionsWitness ==
  \E i \in 2..Len(writes) :
    /\ solo[writes[i].req]
    /\ body[writes[i].req].action # body[writes[i-1].req].action
    /\ gap[writes[i].req] < MIN_REQUEST_INTERVAL
    /\ sleep_time[writes[i].req] > 0
    /\ pc[writes[i].req] = "done"

\* C23: last_request_time changes only in the store of line 37, to the
\* clock value that step read; the step in which a handler runs, whatever
\* its upstream call produced, leaves last_request_time as it was.
OnlyPacerWrites ==
  [][/\ last_request_time' # last_request_time =>
          \E r \in Reqs :
            /\ pc[r] = "store" /\ pc'[r] = "handler"
            /\ last_request_time' = grant_time[r]
     /\ \A r \in Reqs :
          (pc[r] = "handler" /\ pc'[r] = "done") =>
            last_request_time' = last_request_time]_vars

OnlyPacerWritesWitness ==
  \E r \in Reqs :
    /\ pc[r] = "done"
    /\ upstream[r].kind = "response" /\ upstream[r].status_code = 429
    /\ response[r].status = 429
    /\ Len(writes) = 2 /\ writes[2].req = r
    /\ last_request_time = writes[2].value

\* C24: every finished request that called upstream, however the call
\* ended, has a log_request line with its action, its input params and the
\* status that resulted.
LoggingPrecedesResponse ==
  \A r \in Reqs :
    (pc[r] = "done" /\ sent[r] # <<>>) =>
      \E i \in 1..Len(log[r]) :
        /\ log[r][i].by = "log_request"
        /\ log[r][i].action = body[r].action
        /\ log[r][i].params = ParamsOf(body[r])
        /\ log[r][i].status \in {upstream[r].status_code, response[r].status}

\* The request has passed the comparison of lines 31-32.
Compared(r) == pc[r] \in {"sleeping", "grant", "store", "handler", "done"}

\* C25: when a pacer invocation overlaps no other, its grant is at least
\* MIN_REQUEST_INTERVAL after the grant before it, and if it started
\* d < MIN_REQUEST_INTERVAL after that grant it sleeps exactly
\* MIN_REQUEST_INTERVAL - d.
SequentialPacing ==
  /\ \A i \in 2..Len(writes) :
       solo[writes[i].req] =>
         writes[i].value - writes[i-1].value >= MIN_REQUEST_INTERVAL
  /\ \A r \in Reqs :
       (solo[r] /\ Compared(r) /\ gap[r] < MIN_REQUEST_INTERVAL) =>
         sleep_time[r] = MIN_REQUEST_INTERVAL - gap[r]

SequentialPacingWitness ==
  \E r \in Reqs :
    /\ solo[r] /\ pc[r] = "done"
    /\ gap[r] > 0 /\ gap[r] < MIN_REQUEST_INTERVAL
    /\ sleep_time[r] = MIN_REQUEST_INTERVAL - gap[r]
    /\ Len(writes) = 2 /\ writes[2].req = r
    /\ writes[2].value - writes[1].value >= MIN_REQUEST_INTERVAL

\* The default the documentation gives for name k of action a.
DocumentedDefault(a, k) ==
  CASE k = "count" ->
         IF a \in {"get_user_following_ids", "get_user_followers_ids"}
           THEN "5000" ELSE "20"
    [] k = "type" -> "Top"
    [] k = "woeid" -> "1"

\* C26: in the query a request sent upstream, a count, type or woeid the
\* caller left out has the action's documented default ("5000" for the two
\* id listings, "20" for any other count, "Top", "1"), a non-empty value
\* the caller supplied is sent as supplied, and type and woeid are sent by
\* exactly the actions documented to send them.
PerActionDefaults ==
  \A r \in Reqs :
    (Dispatched(r) /\ sent[r] # <<>>) =>
      LET a == body[r].action
          p == ParamsOf(body[r])
          q == sent[r][1].params
      IN  /\ \A k \in {"count", "type", "woeid"} :
                QueryHas(q, k) =>
                  /\ k \notin DOMAIN p => QueryGet(q, k) = DocumentedDefault(a, k)
                  /\ (k \in DOMAIN p /\ p[k] # "") => QueryGet(q, k) = p[k]
          /\ a \in {"get_user_following_ids", "get_user_followers_ids"} => QueryHas(q, "count")
          /\ QueryHas(q, "type") <=>
               a \in {"search_twitter", "search_twitter_v2", "get_community_tweets"}
          /\ QueryHas(q, "woeid") <=> a = "get_trends_by_location"

PerActionDefaultsWitness ==
  \E r \in Reqs :
    /\ Dispatched(r) /\ sent[r] # <<>>
    /\ body[r].action = "get_user_following_ids"
    /\ "count" \notin DOMAIN ParamsOf(body[r])
    /\ QueryGet(sent[r][1].params, "count") = "5000"

\* C27: ACTION_MAP registers exactly 48 distinct action names, and the
\* total that GET /health and GET / report is the number of names in the
\* list they return.
RegistrySize ==
  \A r \in Reqs :
       /\ (pc[r] = "done" /\ route[r] = "/health") =>
            /\ response[r].body.total_endpoints = 48
            /\ response[r].body.total_endpoints =
                 Cardinality(response[r].body.available_actions)
       /\ (pc[r] = "done" /\ route[r] = "/") =>
            /\ response[r].body.total_available_actions = 48
            /\ response[r].body.total_available_actions =
                 Cardinality(response[r].body.available_actions)

\* C28: on a process started with last_request_time 0 and a clock of at
\* least MIN_REQUEST_INTERVAL, a pacer invocation that reads
\* last_request_time before any request has written it does not sleep.
FirstRequestNotDelayed ==
  \A r \in Reqs :
    (Compared(r) /\ seen[r] = 0) =>
      /\ pc[r] # "sleeping"
      /\ sleep_time[r] = 0

FirstRequestNotDelayedWitness ==
  \E r \in Reqs :
    /\ seen[r] = 0 /\ gap[r] = MIN_REQUEST_INTERVAL
    /\ pc[r] = "done" /\ Granted(r)
    /\ writes[1].req = r /\ writes[1].value = StartTime
    /\ sleep_time[r] = 0

\* C29: two requests with the same body whose upstream responses have the
\* same status other than 200 get the same outbound status and body,
\* whatever the bodies of the two upstream responses.
UpstreamErrorBodyHidden ==
  \A r, q \in Reqs :
    (/\ pc[r] = "done" /\ pc[q] = "done"
     /\ body[r] = body[q]
     /\ sent[r] # <<>> /\ sent[q] # <<>>
     /\ upstream[r].kind = "response" /\ upstream[q].kind = "response"
     /\ upstream[r].status_code = upstream[q].status_code
     /\ upstream[r].status_code # 200) =>
      response[r] = response[q]

UpstreamErrorBodyHiddenWitness ==
  \E r, q \in Reqs :
    /\ pc[r] = "done" /\ pc[q] = "done"
    /\ body[r] = body[q]
    /\ upstream[r].kind = "response" /\ upstream[q].kind = "response"
    /\ upstream[r].status_code = 404 /\ upstream[q].status_code = 404
    /\ upstream[r].text # upstream[q].text
    /\ response[r] = response[q]
    /\ response[r].status = 404
====
